---- MODULE Spec2Model ----
(***************************************************************************)
(* A model of the terminal calculator of main.go: the driver loop of main, *)
(* calculate, and the recursive-descent evaluator evalExpr with its three  *)
(* closures parse, parseTerm and parseFactor, which share the cursor pos   *)
(* and the rune slice tokens.  The closures' recursion is an explicit call *)
(* stack of frames; every action is one straight-line piece of a closure   *)
(* between two calls, returns or loop tests.                               *)
(*                                                                         *)
(* A character is a one-character string, a line a sequence of them.  A    *)
(* float64 is modelled by the exact rational <<n, d>> in lowest terms with *)
(* d > 0 (no input within the bounds overflows or rounds to 0); the one    *)
(* non-finite value NonFinite stands for +-Inf and NaN.                    *)
(***************************************************************************)
EXTENDS Integers, Sequences, FiniteSets, TLC

VARIABLES
    stdin,   \* the lines on standard input, in order: [text, more] is the
             \* line that is text followed by more further characters
    rd,      \* how many of them scanner.Scan has delivered
    mpc,     \* where main is: "prompt", "calculate", "eval", "print", "exit"
    line,    \* main's line
    out,     \* what has been written to standard output
    calls,   \* how many times calculate has been called
    tokens,  \* evalExpr's tokens
    pos,     \* evalExpr's pos (0-based, as in the code)
    stack,   \* the closures' call stack, innermost frame last
    ret,     \* the (float64, error) pair of the last return
    steps    \* evaluator steps taken since calculate was entered

vars == <<stdin, rd, mpc, line, out, calls, tokens, pos, stack, ret, steps>>

----------------------------------------------------------------------------
(* Bounds of the model. *)

\* Every line over Alphabet of at most this length is an input.
MaxLen == 4

\* Sessions of the driver have at most this many lines.
MaxLines == 2

----------------------------------------------------------------------------
(* Characters. *)

DigitChars == <<"0", "1", "2", "3", "4", "5", "6", "7", "8", "9">>

\* tokens[pos] >= '0' && tokens[pos] <= '9'
IsDigit(c) == \E i \in 1..10 : DigitChars[i] = c

DigitVal(c) == (CHOOSE i \in 1..10 : DigitChars[i] = c) - 1

\* The number-scanning loop's test on a character.
IsNumChar(c) == IsDigit(c) \/ c = "."

IsMulOp(c) == c = "*" \/ c = "/"

IsAddOp(c) == c = "+" \/ c = "-"

\* What unicode.IsSpace holds of, among the characters of the model.
WhiteSpace == {" ", "\t", "\n", "\r", "\f"}

----------------------------------------------------------------------------
(* float64 arithmetic, exact. *)

Abs(n) == IF n < 0 THEN -n ELSE n

RECURSIVE GCD(_, _)
GCD(a, b) == IF b = 0 THEN a ELSE GCD(b, a % b)

Zero == <<0, 1>>

NonFinite == <<1, 0>>

IsFinite(v) == v[2] # 0

Norm(n, d) ==
    LET g == GCD(Abs(n), Abs(d))
        s == IF d < 0 THEN -1 ELSE 1
    IN  <<(s * n) \div g, (s * d) \div g>>

FAdd(a, b) ==
    IF IsFinite(a) /\ IsFinite(b)
    THEN Norm(a[1] * b[2] + b[1] * a[2], a[2] * b[2]) ELSE NonFinite

FSub(a, b) ==
    IF IsFinite(a) /\ IsFinite(b)
    THEN Norm(a[1] * b[2] - b[1] * a[2], a[2] * b[2]) ELSE NonFinite

FMul(a, b) ==
    IF IsFinite(a) /\ IsFinite(b)
    THEN Norm(a[1] * b[1], a[2] * b[2]) ELSE NonFinite

\* x / 0 is +-Inf or NaN in float64.
FDiv(a, b) ==
    IF IsFinite(a) /\ IsFinite(b) /\ b[1] # 0
    THEN Norm(a[1] * b[2], a[2] * b[1]) ELSE NonFinite

----------------------------------------------------------------------------
(* The library functions main.go calls. *)

\* RemoveSpaces, were only the spaces around the text removed.
RemoveSpacesTrimOnly(s) ==
    LET keep == {i \in 1..Len(s) : s[i] # " "}
    IN  IF keep = {} THEN <<>>
        ELSE SubSeq(s, CHOOSE i \in keep : \A j \in keep : i <= j,
                       CHOOSE i \in keep : \A j \in keep : j <= i)

\* strings.ReplaceAll(input, " ", "")
RECURSIVE RemoveSpaces(_)
RemoveSpaces(s) ==
    IF s = <<>> THEN <<>>
    ELSE IF Head(s) = " " THEN RemoveSpaces(Tail(s))
    ELSE <<Head(s)>> \o RemoveSpaces(Tail(s))

\* bufio.NewScanner(os.Stdin): the scanner's buffer holds at most
\* bufio.MaxScanTokenSize = 64 * 1024 bytes, and Scan() fails with ErrTooLong
\* on a line that, with its line end, does not fit.
MaxScanTokenSize == 65536

\* strings.TrimSpace(line)
TrimSpace(s) ==
    LET keep == {i \in 1..Len(s) : s[i] \notin WhiteSpace}
    IN  IF keep = {} THEN <<>>
        ELSE SubSeq(s, CHOOSE i \in keep : \A j \in keep : i <= j,
                       CHOOSE i \in keep : \A j \in keep : j <= i)

ExitWord == <<"e", "x", "i", "t">>

\* IsExitLine, were the line not trimmed.
IsExitLineUntrimmed(l) == l = ExitWord

\* strings.TrimSpace(line) == "exit"
IsExitLine(l) == TrimSpace(l) = ExitWord

RECURSIVE Pow10(_)
Pow10(k) == IF k = 0 THEN 1 ELSE 10 * Pow10(k - 1)

\* The integer a string of digits writes.
RECURSIVE DecValue(_)
DecValue(ds) ==
    IF ds = <<>> THEN 0
    ELSE 10 * DecValue(SubSeq(ds, 1, Len(ds) - 1)) + DigitVal(ds[Len(ds)])

Nil == <<>>

ErrSyntax(run) == <<"strconv.ParseFloat: parsing", run, "invalid syntax">>

\* strconv.ParseFloat(run, 64) on a run of digits and '.': Go reads the
\* mantissa as digits with at most one '.', anywhere, and wants at least one
\* digit; so "5." is 5 and ".5" is 0.5, and "." is a syntax error.
ParseFloat(run) ==
    LET dots   == {i \in 1..Len(run) : run[i] = "."}
        digits == SelectSeq(run, IsDigit)
        frac   == IF dots = {} THEN 0 ELSE Len(run) - (CHOOSE i \in dots : TRUE)
    IN  IF Cardinality(dots) > 1 \/ digits = <<>>
           \/ \E i \in 1..Len(run) : ~IsNumChar(run[i])
        THEN [val |-> Zero, err |-> ErrSyntax(run)]
        ELSE [val |-> Norm(DecValue(digits), Pow10(frac)), err |-> Nil]

----------------------------------------------------------------------------
(* The errors evalExpr makes. *)

ErrInvalidNumber == <<"invalid number format">>

\* ErrExpectedNumber, were the position counted from 1.
ErrExpectedNumberOneBased(p) == <<"expected number at position", p + 1>>

\* fmt.Errorf("expected number at position %d", pos)
ErrExpectedNumber(p) == <<"expected number at position", p>>

ErrMissingParen == <<"missing closing parenthesis">>

ErrDivByZero == <<"division by zero">>

ErrUnexpected(p) == <<"unexpected character at position", p>>

----------------------------------------------------------------------------
(* The inputs. *)

Alphabet == {"0", "1", ".", "+", "-", "/", "(", ")", " "}

AllLines(n) == UNION {[1..k -> Alphabet] : k \in 0..n}

OpDigits == {"0", "1", "2"}

Ops == {"+", "-", "*", "/"}

\* a o b p c, (a o b) p c and a o (b p c) for all digits and operators.
OpTriples ==
    UNION {{<<a, o, b, p, c>>,
            <<"(", a, o, b, ")", p, c>>,
            <<a, o, "(", b, p, c, ")">>} :
           <<a, b, c, o, p>> \in OpDigits \X OpDigits \X OpDigits \X Ops \X Ops}

Examples ==
    { <<"2", "+", "3", "*", "4">>,
      <<"(", "2", "+", "3", ")", "*", "4">>,
      <<"1", "0", "-", "2", "-", "3">>,
      <<"1", "0", "0", "/", "1", "0", "/", "2">>,
      <<"1", ".", "5", "+", "2", ".", "5">>,
      <<"5", "/", "0">>,
      <<"5", "/", "0", ".", "0">>,
      <<"5", "/", "0", "+", "+">>,
      <<"(", "2", "+", "3">>,
      <<"2", "+", "3", ")">>,
      <<"2", "+", "+", "3">>,
      <<"2", "(", "3", "+", "4", ")">>,
      <<"-", "5", "+", "3">>,
      <<"(", "-", "1", ")">>,
      <<"1", " ", "2", " ", "+", " ", "3">>,
      <<"2", "*", "(", "3", "+", "(", "4", "-", "1", ")", ")">>,
      <<"1", ".", "2", ".", "3">>,
      <<"x">>,
      <<"\t", "1">> }

\* The lines of the driver's sessions.
DriverLines ==
    { ExitWord,
      <<" ", "e", "x", "i", "t", "\t">>,
      <<"e", " ", "x", "i", "t">>,
      <<"1", "/", "0">>,
      <<"1", "+", "1">> }

Lines == AllLines(MaxLen) \cup OpTriples \cup Examples \cup DriverLines

\* The line l as it stands on standard input.
Short(l) == [text |-> l, more |-> 0]

\* A line of MaxScanTokenSize characters.
OverLong == [text |-> <<"1">>, more |-> MaxScanTokenSize - 1]

LineLen(e) == Len(e.text) + e.more

Sessions ==
    UNION {[1..k -> {Short(l) : l \in DriverLines}] : k \in 0..MaxLines}
        \cup {<<OverLong, Short(<<"1", "+", "1">>)>>}

----------------------------------------------------------------------------
(* The call stack of parse, parseTerm and parseFactor. *)

\* A closure's frame: its position pc and its locals (val and op of parse
\* and parseTerm, start and dotSeen of parseFactor).
Frame(fn) ==
    [fn |-> fn, pc |-> "entry", val |-> Zero, op |-> "",
     start |-> 0, dotSeen |-> FALSE]

Top == stack[Len(stack)]

Cur == tokens[pos + 1]

\* pos < len(tokens)
InBounds == pos < Len(tokens)

Running(fn, pc) ==
    /\ mpc = "eval"
    /\ stack # <<>>
    /\ Top.fn = fn
    /\ Top.pc = pc

\* The frame on top becomes f.
SetTop(f) == [stack EXCEPT ![Len(stack)] = f]

\* The closure on top calls fn and will resume as f.
Call(f, fn) ==
    /\ stack' = Append(SetTop(f), Frame(fn))
    /\ ret' = ret

\* The closure on top returns (v, e).
Return(v, e) ==
    /\ stack' = SubSeq(stack, 1, Len(stack) - 1)
    /\ ret' = [val |-> v, err |-> e]

Step == steps' = steps + 1

Driver == <<stdin, rd, mpc, line, out, calls>>

----------------------------------------------------------------------------
(* parseFactor *)

\* for pos < len(tokens) && tokens[pos] == ' ' { pos++ }
RECURSIVE SkipSpaces(_)
SkipSpaces(p) ==
    IF p < Len(tokens) /\ tokens[p + 1] = " " THEN SkipSpaces(p + 1) ELSE p

\* pos < len(tokens) && tokens[pos] == '('
AtOpenParen(p) == p < Len(tokens) /\ tokens[p + 1] = "("

\* AtCloseParen, were the test missing.
AtCloseParenUnchecked == TRUE

\* AtCloseParen, were only the end of the input tested.
AtCloseParenInBounds == InBounds

\* !(pos >= len(tokens) || tokens[pos] != ')')
AtCloseParen == InBounds /\ Cur = ")"

\* Advance, were the increment missing.
AdvanceStuck(p) == p

\* pos++
Advance(p) == p + 1

\* '(' is read: it is consumed and parse is called.
FactorParen ==
    /\ Running("parseFactor", "entry")
    /\ AtOpenParen(SkipSpaces(pos))
    /\ pos' = Advance(SkipSpaces(pos))
    /\ Call([Top EXCEPT !.pc = "paren"], "parse")
    /\ Step
    /\ UNCHANGED <<Driver, tokens>>

\* parse has returned to the '(' branch.
FactorClose ==
    /\ Running("parseFactor", "paren")
    /\ IF ret.err # Nil
       THEN Return(Zero, ret.err) /\ pos' = pos
       ELSE IF ~AtCloseParen
       THEN Return(Zero, ErrMissingParen) /\ pos' = pos
       ELSE Return(ret.val, Nil) /\ pos' = Advance(pos)
    /\ Step
    /\ UNCHANGED <<Driver, tokens>>

\* No '(': a number starts here.
FactorNumber ==
    /\ Running("parseFactor", "entry")
    /\ ~AtOpenParen(SkipSpaces(pos))
    /\ pos' = SkipSpaces(pos)
    /\ stack' = SetTop([Top EXCEPT !.pc = "scan", !.start = SkipSpaces(pos),
                                   !.dotSeen = FALSE])
    /\ ret' = ret
    /\ Step
    /\ UNCHANGED <<Driver, tokens>>

\* The number-scanning loop's test.
ScanMore == InBounds /\ IsNumChar(Cur)

\* One iteration of the number-scanning loop.
FactorScan ==
    /\ Running("parseFactor", "scan")
    /\ ScanMore
    /\ IF Cur = "." /\ Top.dotSeen
       THEN Return(Zero, ErrInvalidNumber) /\ pos' = pos
       ELSE /\ stack' = SetTop([Top EXCEPT !.dotSeen = @ \/ Cur = "."])
            /\ ret' = ret
            /\ pos' = Advance(pos)
    /\ Step
    /\ UNCHANGED <<Driver, tokens>>

\* The loop is over: the run tokens[start:pos] is converted.
FactorConvert ==
    /\ Running("parseFactor", "scan")
    /\ ~ScanMore
    /\ IF Top.start = pos
       THEN Return(Zero, ErrExpectedNumber(pos))
       ELSE LET r == ParseFloat(SubSeq(tokens, Top.start + 1, pos))
            IN  Return(r.val, r.err)
    /\ pos' = pos
    /\ Step
    /\ UNCHANGED <<Driver, tokens>>

----------------------------------------------------------------------------
(* parseTerm *)

\* DivisorIsZero, were the test missing.
DivisorIsZeroNever(v) == FALSE

\* nextVal == 0
DivisorIsZero(v) == v = Zero

\* val *= nextVal, val /= nextVal
ApplyMulOp(op, a, b) == IF op = "*" THEN FMul(a, b) ELSE FDiv(a, b)

TermEntry ==
    /\ Running("parseTerm", "entry")
    /\ Call([Top EXCEPT !.pc = "first"], "parseFactor")
    /\ pos' = pos
    /\ Step
    /\ UNCHANGED <<Driver, tokens>>

\* The first parseFactor has returned.
TermFirst ==
    /\ Running("parseTerm", "first")
    /\ IF ret.err # Nil
       THEN Return(Zero, ret.err)
       ELSE stack' = SetTop([Top EXCEPT !.pc = "loop", !.val = ret.val])
            /\ ret' = ret
    /\ pos' = pos
    /\ Step
    /\ UNCHANGED <<Driver, tokens>>

\* The loop reads '*' or '/', consumes it and calls parseFactor.
TermOp ==
    /\ Running("parseTerm", "loop")
    /\ InBounds /\ IsMulOp(Cur)
    /\ pos' = Advance(pos)
    /\ Call([Top EXCEPT !.pc = "next", !.op = Cur], "parseFactor")
    /\ Step
    /\ UNCHANGED <<Driver, tokens>>

\* The loop ends (end of input, or break) and parseTerm returns val.
TermReturn ==
    /\ Running("parseTerm", "loop")
    /\ ~(InBounds /\ IsMulOp(Cur))
    /\ Return(Top.val, Nil)
    /\ pos' = pos
    /\ Step
    /\ UNCHANGED <<Driver, tokens>>

\* The right operand's parseFactor has returned.
TermNext ==
    /\ Running("parseTerm", "next")
    /\ IF ret.err # Nil
       THEN Return(Zero, ret.err)
       ELSE IF Top.op # "*" /\ DivisorIsZero(ret.val)
       THEN Return(Zero, ErrDivByZero)
       ELSE stack' = SetTop([Top EXCEPT !.pc = "loop",
                                        !.val = ApplyMulOp(Top.op, @, ret.val)])
            /\ ret' = ret
    /\ pos' = pos
    /\ Step
    /\ UNCHANGED <<Driver, tokens>>

----------------------------------------------------------------------------
(* parse *)

\* ApplyAddOp, were the operands of '-' taken in the other order.
ApplyAddOpReversed(op, a, b) == IF op = "+" THEN FAdd(a, b) ELSE FSub(b, a)

\* val += nextVal, val -= nextVal
ApplyAddOp(op, a, b) == IF op = "+" THEN FAdd(a, b) ELSE FSub(a, b)

ParseEntry ==
    /\ Running("parse", "entry")
    /\ Call([Top EXCEPT !.pc = "first"], "parseTerm")
    /\ pos' = pos
    /\ Step
    /\ UNCHANGED <<Driver, tokens>>

\* The first parseTerm has returned.
ParseFirst ==
    /\ Running("parse", "first")
    /\ IF ret.err # Nil
       THEN Return(Zero, ret.err)
       ELSE stack' = SetTop([Top EXCEPT !.pc = "loop", !.val = ret.val])
            /\ ret' = ret
    /\ pos' = pos
    /\ Step
    /\ UNCHANGED <<Driver, tokens>>

\* The loop reads '+' or '-', consumes it and calls parseTerm.
ParseOp ==
    /\ Running("parse", "loop")
    /\ InBounds /\ IsAddOp(Cur)
    /\ pos' = Advance(pos)
    /\ Call([Top EXCEPT !.pc = "next", !.op = Cur], "parseTerm")
    /\ Step
    /\ UNCHANGED <<Driver, tokens>>

\* The loop ends (end of input, or break) and parse returns val.
ParseReturn ==
    /\ Running("parse", "loop")
    /\ ~(InBounds /\ IsAddOp(Cur))
    /\ Return(Top.val, Nil)
    /\ pos' = pos
    /\ Step
    /\ UNCHANGED <<Driver, tokens>>

\* The right operand's parseTerm has returned.
ParseNext ==
    /\ Running("parse", "next")
    /\ IF ret.err # Nil
       THEN Return(Zero, ret.err)
       ELSE stack' = SetTop([Top EXCEPT !.pc = "loop",
                                        !.val = ApplyAddOp(Top.op, @, ret.val)])
            /\ ret' = ret
    /\ pos' = pos
    /\ Step
    /\ UNCHANGED <<Driver, tokens>>

----------------------------------------------------------------------------
(* evalExpr and calculate *)

\* AtEnd, were the test missing.
AtEndUnchecked == TRUE

\* !(pos != len(tokens))
AtEnd == pos = Len(tokens)

\* calculate strips the spaces and calls evalExpr, which sets tokens and pos
\* and calls parse.
Calculate ==
    /\ mpc = "calculate"
    /\ mpc' = "eval"
    /\ calls' = calls + 1
    /\ tokens' = RemoveSpaces(line)
    /\ pos' = 0
    /\ stack' = <<Frame("parse")>>
    /\ ret' = [val |-> Zero, err |-> Nil]
    /\ steps' = 0
    /\ UNCHANGED <<stdin, rd, line, out>>

\* The outermost parse has returned to evalExpr, which checks that the input
\* is used up and returns to calculate, which returns the same to main.
EvalFinish ==
    /\ mpc = "eval"
    /\ stack = <<>>
    /\ mpc' = "print"
    /\ ret' = IF ret.err # Nil THEN [val |-> Zero, err |-> ret.err]
              ELSE IF ~AtEnd THEN [val |-> Zero, err |-> ErrUnexpected(pos)]
              ELSE [val |-> ret.val, err |-> Nil]
    /\ Step
    /\ UNCHANGED <<stdin, rd, line, out, calls, tokens, pos, stack>>

----------------------------------------------------------------------------
(* main *)

Banner == <<"Enter calculation (<number> <operator> <number>), or 'exit' to quit:">>

Prompt == <<"> ">>

Evaluator == <<tokens, pos, stack, ret, steps>>

\* The prompt is printed and scanner.Scan() finds the input at its end.
ScanEOF ==
    /\ mpc = "prompt"
    /\ rd = Len(stdin)
    /\ out' = Append(out, Prompt)
    /\ mpc' = "exit"
    /\ UNCHANGED <<stdin, rd, line, calls, Evaluator>>

\* The prompt is printed and scanner.Scan() fails on a line too long for its
\* buffer: main breaks as at the end of the input.
ScanTooLong ==
    /\ mpc = "prompt"
    /\ rd < Len(stdin)
    /\ LineLen(stdin[rd + 1]) >= MaxScanTokenSize
    /\ out' = Append(out, Prompt)
    /\ mpc' = "exit"
    /\ UNCHANGED <<stdin, rd, line, calls, Evaluator>>

\* The prompt is printed and the line read is "exit".
ScanExit ==
    /\ mpc = "prompt"
    /\ rd < Len(stdin)
    /\ LineLen(stdin[rd + 1]) < MaxScanTokenSize
    /\ IsExitLine(stdin[rd + 1].text)
    /\ out' = Append(out, Prompt)
    /\ rd' = rd + 1
    /\ line' = stdin[rd + 1].text
    /\ mpc' = "exit"
    /\ UNCHANGED <<stdin, calls, Evaluator>>

\* The prompt is printed and the line read is to be calculated.
ScanLine ==
    /\ mpc = "prompt"
    /\ rd < Len(stdin)
    /\ LineLen(stdin[rd + 1]) < MaxScanTokenSize
    /\ ~IsExitLine(stdin[rd + 1].text)
    /\ out' = Append(out, Prompt)
    /\ rd' = rd + 1
    /\ line' = stdin[rd + 1].text
    /\ mpc' = "calculate"
    /\ UNCHANGED <<stdin, calls, Evaluator>>

\* fmt.Println("Error:", err) or fmt.Println("Result:", result)
MainPrint ==
    /\ mpc = "print"
    /\ out' = Append(out, IF ret.err # Nil THEN <<"Error:", ret.err>>
                          ELSE <<"Result:", ret.val>>)
    /\ mpc' = "prompt"
    /\ UNCHANGED <<stdin, rd, line, calls, Evaluator>>

----------------------------------------------------------------------------
(* The specifications. *)

InitOn(streams) ==
    /\ stdin \in streams
    /\ rd = 0
    /\ mpc = "prompt"
    /\ line = <<>>
    /\ out = <<Banner>>
    /\ calls = 0
    /\ tokens = <<>>
    /\ pos = 0
    /\ stack = <<>>
    /\ ret = [val |-> Zero, err |-> Nil]
    /\ steps = 0

\* One line of input, or a session of the driver.
Init == InitOn({<<Short(l)>> : l \in Lines} \cup Sessions)

EvalStep ==
    \/ ParseEntry \/ ParseFirst \/ ParseOp \/ ParseReturn \/ ParseNext
    \/ TermEntry \/ TermFirst \/ TermOp \/ TermReturn \/ TermNext
    \/ FactorParen \/ FactorClose \/ FactorNumber \/ FactorScan
    \/ FactorConvert

Next ==
    \/ ScanEOF \/ ScanTooLong \/ ScanExit \/ ScanLine \/ Calculate \/ EvalStep
    \/ EvalFinish \/ MainPrint

Spec == Init /\ [][Next]_vars

\* s with no space left in it.
NotSpace(c) == c # " "

WithoutSpaces(s) == SelectSeq(s, NotSpace)

\* A line, and then the same line without its spaces.
InitWS ==
    InitOn({<<Short(l), Short(WithoutSpaces(l))>> : l \in Lines}
               \cup {<<OverLong>>})

SpecWS == InitWS /\ [][Next]_vars

----------------------------------------------------------------------------
(* A reference reading of an expression, by splitting: an expression is    *)
(* split at its last '+' or '-' outside parentheses, a term at its last    *)
(* '*' or '/' outside parentheses, and a factor is a parenthesized         *)
(* expression or a decimal number.  RefUndef is the value of a text that   *)
(* is no expression, or that divides by zero.                              *)

RefUndef == <<0, 0>>

RefDepth(s, i) ==
    Cardinality({j \in 1..(i - 1) : s[j] = "("})
        - Cardinality({j \in 1..(i - 1) : s[j] = ")"})

RefTopLevel(s, ops) == {i \in 1..Len(s) : s[i] \in ops /\ RefDepth(s, i) = 0}

RefLast(I) == CHOOSE i \in I : \A j \in I : j <= i

RefApply(op, a, b) ==
    IF a = RefUndef \/ b = RefUndef THEN RefUndef
    ELSE IF op = "+" THEN FAdd(a, b)
    ELSE IF op = "-" THEN FSub(a, b)
    ELSE IF op = "*" THEN FMul(a, b)
    ELSE IF b = Zero THEN RefUndef
    ELSE FDiv(a, b)

RefNumber(s) ==
    LET dots == {i \in 1..Len(s) : s[i] = "."}
        d    == IF dots = {} THEN Len(s) + 1 ELSE CHOOSE i \in dots : TRUE
        int  == SubSeq(s, 1, d - 1)
        frac == SubSeq(s, d + 1, Len(s))
    IN  IF \/ Cardinality(dots) > 1
           \/ int \o frac = <<>>
           \/ \E i \in 1..Len(s) : ~IsNumChar(s[i])
        THEN RefUndef
        ELSE FAdd(<<DecValue(int), 1>>, Norm(DecValue(frac), Pow10(Len(frac))))

RECURSIVE RefExpr(_), RefTerm(_), RefFactor(_)
RefExpr(s) ==
    LET I == RefTopLevel(s, {"+", "-"})
    IN  IF I = {} THEN RefTerm(s)
        ELSE RefApply(s[RefLast(I)], RefExpr(SubSeq(s, 1, RefLast(I) - 1)),
                      RefTerm(SubSeq(s, RefLast(I) + 1, Len(s))))

RefTerm(s) ==
    LET I == RefTopLevel(s, {"*", "/"})
    IN  IF I = {} THEN RefFactor(s)
        ELSE RefApply(s[RefLast(I)], RefTerm(SubSeq(s, 1, RefLast(I) - 1)),
                      RefFactor(SubSeq(s, RefLast(I) + 1, Len(s))))

RefFactor(s) ==
    IF Len(s) >= 2 /\ s[1] = "(" /\ s[Len(s)] = ")"
    THEN RefExpr(SubSeq(s, 2, Len(s) - 1))
    ELSE RefNumber(s)

----------------------------------------------------------------------------
(* The claims. *)

\* calculate has returned to main on the line l.
Returned(l) == mpc = "print" /\ line = l

\* calculate has returned the value n/d.
Gives(n, d) == ret = [val |-> <<n, d>>, err |-> Nil]

\* An error, once returned, is returned by every caller up to calculate, and
\* nothing more is read.
ErrorIsFinal(e) ==
    (mpc = "eval" /\ ret.err = e) => (ret'.err = e /\ pos' = pos)

\* C1: whenever calculate succeeds, its result is the value of the stripped
\* input read with '*' and '/' binding tighter than '+' and '-', both levels
\* left-associative and parenthesized groups first (the reference reading);
\* so 2+3*4 = 14, (2+3)*4 = 20, 10-2-3 = 5 and 100/10/2 = 5.
C1_Precedence ==
    /\ (mpc = "print" /\ ret.err = Nil) => ret.val = RefExpr(tokens)
    /\ Returned(<<"2", "+", "3", "*", "4">>) => Gives(14, 1)
    /\ Returned(<<"(", "2", "+", "3", ")", "*", "4">>) => Gives(20, 1)
    /\ Returned(<<"1", "0", "-", "2", "-", "3">>) => Gives(5, 1)
    /\ Returned(<<"1", "0", "0", "/", "1", "0", "/", "2">>) => Gives(5, 1)

C1_Witness ==
    /\ Returned(<<"1", "-", "2", "/", "2">>)
    /\ Gives(0, 1)
    /\ RefExpr(tokens) = Zero

\* C2: when the outermost parse returns without error, calculate succeeds
\* with that value if the cursor is at the end of the stripped input, and
\* otherwise fails with "unexpected character at position N", N the cursor;
\* so "2+3)" fails at 3 and "2(3+4)" at 1, and a success leaves no character
\* unconsumed.
C2_Step ==
    (mpc = "eval" /\ stack = <<>> /\ ret.err = Nil) =>
        /\ mpc' = "print"
        /\ pos' = pos
        /\ IF pos = Len(tokens)
           THEN ret' = ret
           ELSE ret' = [val |-> Zero,
                        err |-> <<"unexpected character at position", pos>>]

C2_State ==
    /\ (mpc = "print" /\ ret.err = Nil) => pos = Len(tokens)
    /\ Returned(<<"2", "+", "3", ")">>) =>
           ret.err = <<"unexpected character at position", 3>>
    /\ Returned(<<"2", "(", "3", "+", "4", ")">>) =>
           ret.err = <<"unexpected character at position", 1>>

C2_Termination == [][C2_Step]_vars /\ []C2_State

C2_Witness ==
    /\ Returned(<<"2", "+", "3", ")">>)
    /\ ret.err = <<"unexpected character at position", 3>>
    /\ pos = 3

\* C3: when the right operand of a '/' has been parsed without error and is
\* exactly 0, parseTerm returns "division by zero" without dividing and
\* without moving the cursor, the error reaches calculate's caller with
\* nothing more read, and no value of the evaluation is ever non-finite.
C3_Step ==
    (/\ Running("parseTerm", "next")
     /\ Top.op = "/"
     /\ ret.err = Nil
     /\ ret.val = <<0, 1>>) =>
        /\ ret' = [val |-> Zero, err |-> <<"division by zero">>]
        /\ pos' = pos
        /\ stack' = SubSeq(stack, 1, Len(stack) - 1)

C3_State ==
    /\ IsFinite(ret.val)
    /\ \A i \in 1..Len(stack) : IsFinite(stack[i].val)
    /\ Returned(<<"5", "/", "0">>) => ret.err = <<"division by zero">>
    /\ Returned(<<"5", "/", "0", ".", "0">>) => ret.err = <<"division by zero">>
    /\ Returned(<<"1", "/", "(", "1", "-", "1", ")">>) =>
           ret.err = <<"division by zero">>

C3_DivisionByZero ==
    [][C3_Step /\ ErrorIsFinal(<<"division by zero">>)]_vars /\ []C3_State

C3_Witness ==
    /\ Returned(<<"5", "/", "0", "+", "+">>)
    /\ ret.err = <<"division by zero">>
    /\ pos = 3

\* C4: on '(' parseFactor consumes it and calls parse; when parse returns
\* without error and the cursor is at the end or not at ')', parseFactor
\* returns "missing closing parenthesis", which reaches calculate's caller;
\* and a ')' is consumed only by a parseFactor that opened a '(' and whose
\* inner parse returned without error.
C4_Step ==
    /\ (Running("parseFactor", "entry") /\ InBounds /\ Cur = "(") =>
           /\ pos' = pos + 1
           /\ stack'[Len(stack')] = Frame("parse")
           /\ stack'[Len(stack)].pc = "paren"
    /\ (/\ Running("parseFactor", "paren")
        /\ ret.err = Nil
        /\ (pos >= Len(tokens) \/ tokens[pos + 1] # ")")) =>
           /\ ret' = [val |-> Zero, err |-> <<"missing closing parenthesis">>]
           /\ pos' = pos
    /\ (mpc = "eval" /\ pos' # pos /\ tokens[pos + 1] = ")") =>
           /\ Running("parseFactor", "paren")
           /\ ret.err = Nil
           /\ pos' = pos + 1
           /\ ret' = ret

C4_State ==
    /\ Returned(<<"(", "2", "+", "3">>) =>
           ret.err = <<"missing closing parenthesis">>
    /\ Returned(<<"(", "1", "(">>) => ret.err = <<"missing closing parenthesis">>

C4_Parenthesis ==
    [][C4_Step /\ ErrorIsFinal(<<"missing closing parenthesis">>)]_vars
        /\ []C4_State

C4_Witness ==
    /\ Returned(<<"(", "2", "+", "3">>)
    /\ ret.err = <<"missing closing parenthesis">>
    /\ pos = 4

\* C5 as claimed: whenever parseFactor expects a number (no '(' was read and
\* nothing of a number is consumed yet) and the cursor is at the end or at a
\* character that is neither a digit nor '(', it returns "expected number at
\* position N", N the cursor.
C5_AsClaimed_Step ==
    (/\ Running("parseFactor", "scan")
     /\ Top.start = pos
     /\ (pos >= Len(tokens)
            \/ (~IsDigit(tokens[pos + 1]) /\ tokens[pos + 1] # "("))) =>
        /\ ret' = [val |-> Zero, err |-> <<"expected number at position", pos>>]
        /\ pos' = pos

C5_AsClaimed == [][C5_AsClaimed_Step]_vars

\* C5, amended: parseFactor is entered only at the start of the input, after
\* a binary operator or after '('; whenever it is entered with the cursor at
\* the end or at a character that is neither a digit, '(' nor '.', it
\* consumes nothing and returns "expected number at position N", N the
\* 0-based cursor into the stripped text, which reaches calculate's caller;
\* so the empty input fails at 0, "2++3" at 2, "()" at 1 and "-5+3" at 0.
C5_NothingToRead ==
    pos >= Len(tokens)
        \/ (~IsDigit(tokens[pos + 1]) /\ tokens[pos + 1] \notin {"(", "."})

C5_Step ==
    /\ (Running("parseFactor", "entry") /\ C5_NothingToRead) =>
           /\ pos' = pos
           /\ ret' = ret
           /\ stack'[Len(stack)].pc = "scan"
           /\ stack'[Len(stack)].start = pos
    /\ (/\ Running("parseFactor", "scan")
        /\ Top.start = pos
        /\ C5_NothingToRead) =>
           /\ ret' = [val |-> Zero,
                      err |-> <<"expected number at position", pos>>]
           /\ pos' = pos
    /\ \A p \in 0..Len(tokens) :
           ErrorIsFinal(<<"expected number at position", p>>)

C5_State ==
    /\ Running("parseFactor", "entry") =>
           pos = 0 \/ tokens[pos] \in {"+", "-", "*", "/", "("}
    /\ Returned(<<>>) => ret.err = <<"expected number at position", 0>>
    /\ Returned(<<"2", "+", "+", "3">>) =>
           ret.err = <<"expected number at position", 2>>
    /\ Returned(<<"(", ")">>) => ret.err = <<"expected number at position", 1>>
    /\ Returned(<<"-", "5", "+", "3">>) =>
           ret.err = <<"expected number at position", 0>>
    /\ Returned(<<"+", "1">>) => ret.err = <<"expected number at position", 0>>

C5_ExpectedNumber == [][C5_Step]_vars /\ []C5_State

C5_Witness ==
    /\ Returned(<<"2", "+", "+", "3">>)
    /\ ret.err = <<"expected number at position", 2>>
    /\ pos = 2

\* digit+ ('.' digit+)?
WellFormedNumber(s) ==
    \E k \in 1..Len(s) :
        /\ \A i \in 1..k : IsDigit(s[i])
        /\ \/ k = Len(s)
           \/ /\ k + 2 <= Len(s)
              /\ s[k + 1] = "."
              /\ \A i \in (k + 2)..Len(s) : IsDigit(s[i])

\* C6: an input that is one run of digits and '.' is accepted, with its
\* decimal value, exactly if it has the form digit+ ('.' digit+)?; a run
\* with two '.' fails with "invalid number format" and every other run not
\* of that form fails.
C6_NumberGrammar ==
    (/\ mpc = "print"
     /\ tokens # <<>>
     /\ \A i \in 1..Len(tokens) : IsNumChar(tokens[i])) =>
        IF WellFormedNumber(tokens)
        THEN ret = [val |-> RefNumber(tokens), err |-> Nil]
        ELSE /\ ret.err # Nil
             /\ Cardinality({i \in 1..Len(tokens) : tokens[i] = "."}) >= 2
                    => ret.err = <<"invalid number format">>

\* The outcomes printed so far.
IsOutcome(e) == e[1] = "Result:" \/ e[1] = "Error:"

Outcomes == SelectSeq(out, IsOutcome)

\* C7: calculate on a line and calculate on the same line without its spaces
\* print the same outcome: the same value, or the same error with the same
\* position; so "1 2 + 3" is 15.
C7_Whitespace ==
    /\ (Len(Outcomes) = 2 /\ stdin[2].text = WithoutSpaces(stdin[1].text)) =>
           Outcomes[1] = Outcomes[2]
    /\ Returned(<<"1", " ", "2", " ", "+", " ", "3">>) => Gives(15, 1)

C7_Witness ==
    /\ stdin[1].text = <<" ", "1", " ", "/">>
    /\ Len(Outcomes) = 2
    /\ Outcomes[2] = <<"Error:", <<"expected number at position", 2>>>>

\* The text of the i-th line of standard input.
Text(i) == stdin[i].text

\* C8: main leaves the loop only from the scan, at the end of the input or on
\* a line that is "exit" once trimmed, and never calls calculate on such a
\* line; every other line read is calculated exactly once, as read, and
\* exactly one "Result:" or "Error:" is printed for it, after which main is
\* at the prompt again, whatever the outcome.
C8_Step ==
    /\ (mpc' = "exit" /\ mpc # "exit") =>
           /\ mpc = "prompt"
           /\ rd = Len(stdin) \/ TrimSpace(Text(rd + 1)) = ExitWord
    /\ (mpc = "prompt" /\ rd < Len(stdin)
            /\ TrimSpace(Text(rd + 1)) # ExitWord) =>
           mpc' = "calculate" /\ line' = Text(rd + 1)
    /\ mpc = "calculate" => tokens' = WithoutSpaces(line) /\ mpc' = "eval"
    /\ mpc = "print" =>
           /\ mpc' = "prompt"
           /\ out' = Append(out, IF ret.err = Nil THEN <<"Result:", ret.val>>
                                 ELSE <<"Error:", ret.err>>)
    /\ calls' # calls => calls' = calls + 1 /\ mpc = "calculate"

C8_Busy == mpc \in {"calculate", "eval", "print"}

C8_State ==
    /\ \A i \in 1..(rd - 1) : TrimSpace(Text(i)) # ExitWord
    /\ C8_Busy => /\ rd > 0 /\ line = Text(rd)
                  /\ TrimSpace(line) # ExitWord
    /\ calls = Cardinality({i \in 1..rd : TrimSpace(Text(i)) # ExitWord})
                   - (IF mpc = "calculate" THEN 1 ELSE 0)
    /\ Len(Outcomes) = calls - (IF mpc \in {"eval", "print"} THEN 1 ELSE 0)
    /\ out[1] = Banner
    /\ \A j \in 2..Len(out) :
           IF j % 2 = 0 THEN out[j] = Prompt ELSE IsOutcome(out[j])
    /\ Len(out) = 1 + 2 * Len(Outcomes)
                    + (IF mpc = "prompt" THEN 0 ELSE 1)

C8_Driver == [][C8_Step]_vars /\ []C8_State

\* The same holds of the code as long as every line on standard input is
\* shorter than the scanner's buffer.
C8_AllShort == \A i \in 1..Len(stdin) : LineLen(stdin[i]) < MaxScanTokenSize

C8_DriverOnShortLines ==
    [][C8_AllShort => C8_Step]_vars /\ [](C8_AllShort => C8_State)

\* C9: an evaluation never stops before it returns, and returns within
\* 8 * len(tokens) + 9 steps with at most 3 * (len(tokens) + 1) frames: every
\* iteration of the number-scanning loop and every iteration of the operator
\* loops that goes on consumes one character, as does every descent into a
\* parenthesized group.
StepBound == 8 * Len(tokens) + 9

C9_Step ==
    /\ mpc = "eval" => steps' = steps + 1
    /\ (Running("parseFactor", "scan") /\ Len(stack') = Len(stack)) =>
           pos' = pos + 1
    /\ (/\ \/ Running("parseFactor", "entry")
           \/ Running("parseTerm", "loop")
           \/ Running("parse", "loop")
        /\ Len(stack') > Len(stack)) =>
           pos' = pos + 1

C9_State ==
    mpc = "eval" =>
        /\ steps < StepBound
        /\ Len(stack) <= 3 * (pos + 1)
        /\ ENABLED (EvalStep \/ EvalFinish)

C9_Terminates == [][C9_Step]_vars /\ []C9_State

C9_Witness ==
    /\ Returned(<<"(", "(", "(", "(">>)
    /\ steps = 31

\* C10: the cursor stays within 0..len(tokens) in every state; no step of an
\* evaluation, on any path, moves it back or changes tokens.
C10_Step == mpc = "eval" => pos' >= pos /\ tokens' = tokens

C10_State == 0 <= pos /\ pos <= Len(tokens)

C10_Cursor == [][C10_Step]_vars /\ []C10_State

C10_Witness ==
    /\ mpc = "eval"
    /\ ret.err = <<"missing closing parenthesis">>
    /\ stack # <<>>
    /\ pos = Len(tokens)
    /\ pos = 4

====
